---- MODULE Spec2Model ----
(***************************************************************************)
(* Model of the Generate purger Lambda (podaac/generate_purger).           *)
(*                                                                         *)
(* Two pipelines are modelled, as in purger_handler:                       *)
(*   purge_s3  : generate_s3_list, query_cmr_and_delete, report_s3         *)
(*   purge_efs : generate_file_lists, sort_holding_tank, archive_and_delete*)
(*               upload_archives, report_ops                               *)
(* Both end in publish_event when an exception reaches their handler.      *)
(***************************************************************************)
EXTENDS Integers, Sequences, FiniteSets, TLC

(***************************************************************************)
(* Bounds of the model.                                                    *)
(***************************************************************************)
\* Largest number of granules the staging bucket holds, over all datasets.
MaxGranules == 2
\* Largest number of ArchiveAndDistributionInformation entries of a hit.
MaxEntries == 2
\* Number of keys the store returns per listing page.
PageSize == 2
\* Largest number of listing responses a store of any behaviour gives for a
\* prefix, and largest number of keys in one of them.
MaxPages == 2
MaxPageKeys == 2

(***************************************************************************)
(* Constants of the program.                                               *)
(***************************************************************************)
\* DATASETS.keys(), in insertion order.
DATASETS == <<"aqua", "terra", "viirs">>

DatasetNames == {DATASETS[i] : i \in DOMAIN DATASETS}

\* Granule identifiers found in the staging bucket.
GranuleNames == <<"g1", "g2", "g3", "g4", "g5">>

VARIABLES
    s3_pc,       \* position of purge_s3
    objects,     \* keys present in the staging bucket
    s3_dict,     \* dataset -> granule identifiers listed (generate_s3_list)
    del_dict,    \* dataset -> identifiers recorded as deleted
    ds,          \* index in DATASETS of the dataset query_cmr_and_delete is at
    idx,         \* index in s3_dict[dataset] of the next candidate
    res,         \* the local `res` of query_cmr_and_delete: last CMR response
    raised,      \* the exception last raised while processing, or "none"
    qcd,         \* how query_cmr_and_delete ended: "none", "returned", "raised"
    ssm_calls,   \* number of get_parameter requests issued
    cmr_calls,   \* the catalog searches issued, in order
    s3_deletes,  \* the delete_object requests issued, in order
    stop_mark,   \* the exception that ended the loop over the candidates, and
                 \* the numbers of searches and deletes issued by then
    report,      \* what report_s3 logged, or "none"
    alert        \* outcome of publish_event, or "none"

s3vars == <<s3_pc, objects, s3_dict, del_dict, ds, idx, res, raised, qcd,
            ssm_calls, cmr_calls, s3_deletes, stop_mark, report, alert>>

VARIABLES
    efs_pc,        \* position of purge_efs
    now,           \* the wall clock: calendar date (y, m, d) and hour count t
    today,         \* `today` of generate_file_lists, captured from the clock
    threshold,     \* purger_dict[..][rule]["threshold"], in hours
    action,        \* purger_dict[..][rule]["action"]
    file_list,     \* purger_dict[..][rule]["file_list"]
    fs,            \* the entries of the EFS mount, by path
    rule,          \* index in RULES of the rule a loop is at
    pos,           \* index in the list a loop goes through
    holding_tank,  \* the de-duplicated pool of sort_holding_tank, in its order
    product_name,  \* path -> ds.product_name as read, or "unread"
    deleted,       \* `deleted` of archive_and_delete
    archive,       \* rule -> entries to archive
    archived,      \* rule -> names archived and removed
    zipped,        \* rule -> zip files handed to upload_archives
    bundle,        \* rule -> state of the zip file of the rule
    local_zips,    \* rules whose zip file is on the EFS mount
    uploaded,      \* rules whose zip file the S3 bucket holds
    efs_raised,    \* the exception that reached purge_efs, or "none"
    efs_report,    \* what report_ops logged
    efs_alert      \* outcome of publish_event, or "none"

efsvars == <<efs_pc, now, today, threshold, action, file_list, fs, rule, pos,
             holding_tank, product_name, deleted, archive, archived, zipped,
             bundle, local_zips, uploaded, efs_raised, efs_report, efs_alert>>

VARIABLES
    list_pc,      \* position of generate_s3_list run against any store
    store,        \* the base names of the responses the store gives a prefix
    list_ds,      \* index in DATASETS of the dataset being listed
    listed,       \* `s3_dict` of generate_s3_list
    list_raised   \* the exception that left generate_s3_list, or "none"

listvars == <<list_pc, store, list_ds, listed, list_raised>>

vars == <<s3vars, efsvars, listvars>>

(***************************************************************************)
(* Keys and names.  A base name is the sequence of its dot-delimited       *)
(* segments; a key is a prefix and a base name.                             *)
(***************************************************************************)
\* f"{l2p}.nc"
NcName(l2p) == l2p \o <<"nc">>

\* f"{l2p}.nc.md5"
Md5Name(l2p) == l2p \o <<"nc", "md5">>

\* f"{dataset}/{l2p}.nc"
NcKey(dataset, l2p) == [prefix |-> dataset, name |-> NcName(l2p)]

\* f"{dataset}/{l2p}.nc.md5"
Md5Key(dataset, l2p) == [prefix |-> dataset, name |-> Md5Name(l2p)]

\* ".nc.md5" in l2p
HasNcMd5(name) ==
    \E i \in 2..(Len(name) - 1) : name[i] = "nc" /\ name[i + 1] = "md5"

\* ".nc" in l2p
HasNc(name) == \E i \in 2..Len(name) : name[i] = "nc"

\* l2p.split('.nc')[0]
BeforeNc(name) ==
    LET first == CHOOSE i \in 2..Len(name) :
                    /\ name[i] = "nc"
                    /\ \A j \in 2..(i - 1) : name[j] # "nc"
    IN  SubSeq(name, 1, first - 1)

RECURSIVE parse_s3_response(_)
parse_s3_response(contents) ==
    IF contents = <<>> THEN <<>>
    ELSE LET l2p == Head(contents).name
             rest == parse_s3_response(Tail(contents))
         IN  IF HasNcMd5(l2p) THEN rest
             ELSE IF HasNc(l2p) THEN <<BeforeNc(l2p)>> \o rest
             ELSE rest

(***************************************************************************)
(* The staging bucket: list_objects_v2 returns the keys under a prefix in  *)
(* key order, PageSize keys per response.                                  *)
(***************************************************************************)
Min(a, b) == IF a <= b THEN a ELSE b

RECURSIVE KeysOf(_, _, _)
KeysOf(dataset, n, present) ==
    IF n = 0 THEN <<>>
    ELSE KeysOf(dataset, n - 1, present)
         \o (IF NcKey(dataset, <<GranuleNames[n]>>) \in present
             THEN <<NcKey(dataset, <<GranuleNames[n]>>)>> ELSE <<>>)
         \o (IF Md5Key(dataset, <<GranuleNames[n]>>) \in present
             THEN <<Md5Key(dataset, <<GranuleNames[n]>>)>> ELSE <<>>)

\* The keys of a dataset present in the bucket, in listing order.
Listing(dataset, present) == KeysOf(dataset, Len(GranuleNames), present)

\* The responses of a store that gives PageSize keys per response, the n-th
\* response onwards: "Contents" is there when there is a key, and
\* "NextContinuationToken" (0 when absent) names the next response.
RECURSIVE PagesFrom(_, _)
PagesFrom(keys, n) ==
    LET last == Min(PageSize, Len(keys))
        more == last < Len(keys)
    IN  <<[Contents |-> SubSeq(keys, 1, last),
           HasContents |-> keys # <<>>,
           NextContinuationToken |-> IF more THEN n + 1 ELSE 0]>>
        \o (IF more THEN PagesFrom(SubSeq(keys, last + 1, Len(keys)), n + 1)
            ELSE <<>>)

Pages(keys) == PagesFrom(keys, 1)

\* list_objects_v2: the first response of the store for the prefix, or the
\* response the continuation token names.
list_objects_v2(responses, token) ==
    responses[IF token = 0 THEN 1 ELSE token]

\* The while loop of generate_s3_list: what it adds to the list, and the
\* KeyError of response["Contents"] when a response has no such key.
RECURSIVE page_through(_, _)
page_through(responses, next_token) ==
    IF next_token = 0 THEN [s3_list |-> <<>>, raised |-> "none"]
    ELSE LET response == list_objects_v2(responses, next_token)
         IN  IF ~response.HasContents
             THEN [s3_list |-> <<>>, raised |-> "key_error"]
             ELSE LET rest == page_through(responses,
                                           response.NextContinuationToken)
                  IN  [s3_list |->
                          (IF Len(response.Contents) > 0
                           THEN parse_s3_response(response.Contents)
                           ELSE <<>>) \o rest.s3_list,
                       raised |-> rest.raised]

\* The body of generate_s3_list for one dataset.
list_dataset(responses) ==
    LET response == list_objects_v2(responses, 0)
    IN  IF response.HasContents /\ Len(response.Contents) > 0
        THEN LET rest == page_through(responses,
                                      response.NextContinuationToken)
             IN  [s3_list |-> parse_s3_response(response.Contents)
                                 \o rest.s3_list,
                  raised |-> rest.raised]
        ELSE [s3_list |-> <<>>, raised |-> "none"]

(***************************************************************************)
(* The catalog (CMR) and what a search can answer.                         *)
(***************************************************************************)
\* `res` before the first requests.post has returned.
Unbound == [body |-> "unbound", errors |-> FALSE, hits |-> -1,
            items_ok |-> FALSE, files |-> <<>>]

\* An entry of ArchiveAndDistributionInformation, with or without "Name".
Entries(l2p) ==
    {[has_name |-> TRUE, Name |-> NcName(l2p)],
     [has_name |-> TRUE, Name |-> Md5Name(l2p)],
     [has_name |-> FALSE, Name |-> <<>>]}

EntrySeqs(l2p) ==
    UNION {[1..n -> Entries(l2p)] : n \in 0..MaxEntries}

\* The responses requests.post can return for a search of l2p: a body that
\* is not JSON; "hits" absent, 0 or positive, the latter with or without
\* well-formed "items"; an "errors" response, alone or next to a hit.
Responses(l2p) ==
    {[body |-> "not_json", errors |-> FALSE, hits |-> -1,
      items_ok |-> FALSE, files |-> <<>>]}
    \cup {[body |-> "json", errors |-> FALSE, hits |-> h,
           items_ok |-> FALSE, files |-> <<>>] : h \in {-1, 0, 1}}
    \cup {[body |-> "json", errors |-> FALSE, hits |-> 1,
           items_ok |-> TRUE, files |-> f] : f \in EntrySeqs(l2p)}
    \cup {[body |-> "json", errors |-> TRUE, hits |-> -1,
           items_ok |-> FALSE, files |-> <<>>],
          [body |-> "json", errors |-> TRUE, hits |-> 1,
           items_ok |-> TRUE,
           files |-> <<[has_name |-> TRUE, Name |-> NcName(l2p)]>>]}

\* How one call of delete_l2p can go: both deletes succeed, or the first or
\* the second delete_object raises a ClientError or another exception.
DeleteOutcomes == {"ok", "client_error_1", "client_error_2",
                   "other_error_1", "other_error_2"}

\* delete_l2p: the requests issued, the keys removed and the exception.
delete_l2p(dataset, l2p, outcome) ==
    [issued  |-> IF outcome \in {"client_error_1", "other_error_1"}
                 THEN <<NcKey(dataset, l2p)>>
                 ELSE <<NcKey(dataset, l2p), Md5Key(dataset, l2p)>>,
     removed |-> IF outcome \in {"client_error_1", "other_error_1"} THEN {}
                 ELSE IF outcome = "ok"
                      THEN {NcKey(dataset, l2p), Md5Key(dataset, l2p)}
                      ELSE {NcKey(dataset, l2p)},
     exc     |-> IF outcome = "ok" THEN "none"
                 ELSE IF outcome \in {"client_error_1", "client_error_2"}
                      THEN "client_error"
                      ELSE "store_error"]

\* A comparison that accepts any entry that has a name.
name_matches_any(file, l2p) == file.has_name

\* file["Name"] == f"{l2p}.nc"
name_matches(file, l2p) == file.Name = NcName(l2p)

\* The loop over the entries of a hit (lines 382-385), from entry k on:
\* the identifiers appended to del_dict[dataset], the delete requests
\* issued, the keys removed and the exception that ended it.
RECURSIVE confirm_and_delete(_, _, _, _, _)
confirm_and_delete(files, k, dataset, l2p, outcomes) ==
    IF k > Len(files)
    THEN [appended |-> <<>>, issued |-> <<>>, removed |-> {}, exc |-> "none"]
    ELSE IF ~files[k].has_name
    THEN [appended |-> <<>>, issued |-> <<>>, removed |-> {},
          exc |-> "key_error"]
    ELSE IF name_matches(files[k], l2p)
    THEN LET d == delete_l2p(dataset, l2p, outcomes[k])
             rest == confirm_and_delete(files, k + 1, dataset, l2p, outcomes)
         IN  IF d.exc # "none"
             THEN [appended |-> <<l2p>>, issued |-> d.issued,
                   removed |-> d.removed, exc |-> d.exc]
             ELSE [appended |-> <<l2p>> \o rest.appended,
                   issued |-> d.issued \o rest.issued,
                   removed |-> d.removed \cup rest.removed,
                   exc |-> rest.exc]
    ELSE confirm_and_delete(files, k + 1, dataset, l2p, outcomes)

\* The body of the try block for one candidate (lines 374-387), given the
\* response: what it appends, issues and removes, and the exception raised.
process_response(r, dataset, l2p, outcomes) ==
    LET nothing(e) == [appended |-> <<>>, issued |-> <<>>, removed |-> {},
                       exc |-> e]
    IN  IF r.body # "json" THEN nothing("json_error")
        ELSE IF r.errors THEN nothing("none")
        ELSE IF r.hits > 0
        THEN IF ~r.items_ok THEN nothing("key_error")
             ELSE confirm_and_delete(r.files, 1, dataset, l2p, outcomes)
        ELSE nothing("none")

(***************************************************************************)
(* The configuration and the EFS mount.                                    *)
(***************************************************************************)
\* Largest age threshold of a rule, in hours.
MaxThreshold == 2
\* Largest age of an entry when the run starts, in hours.
MaxAge == 2

\* The rules of purger.json, in the order the loops go through them: the
\* three holding-tank rules of the combiner and a rule of another component.
QUICKLOOK == "holding_tank_quicklook"
REFINED_MODIS == "holding_tank_refined_modis"
REFINED_VIIRS == "holding_tank_refined_viirs"
RULES == <<QUICKLOOK, REFINED_MODIS, REFINED_VIIRS, "logs">>

RuleNames == {RULES[i] : i \in DOMAIN RULES}

HoldingTankRules == {QUICKLOOK, REFINED_MODIS, REFINED_VIIRS}

\* path_dict["path"]: the directory a rule scans.
PathOf(r) == IF r \in HoldingTankRules THEN "holding_tank" ELSE "logs"

Paths == {"f1", "f2"}

\* The second dot-delimited segment of a name: a timestamp YYYYMMDDTHHMMSS
\* (kind "time"), some other text, or none when the name has no dot.
Stamps ==
    {[kind |-> "time", y |-> y, m |-> m, d |-> d] :
        y \in 1..2, m \in 1..2, d \in 1..3}
    \cup {[kind |-> k, y |-> 0, m |-> 0, d |-> 0] : k \in {"text", "none"}}

NoStamp == [kind |-> "none", y |-> 0, m |-> 0, d |-> 0]

\* An entry of the mount: where it is, what it is, which instrument tokens
\* its name contains, the second segment of its name, its mtime in hours.
Absent == [present |-> FALSE, dir |-> "none", kind |-> "none", markers |-> {},
           stamp |-> NoStamp, mtime |-> 0]

HoldingTankFiles(markers, stamps, mtimes) ==
    {[present |-> TRUE, dir |-> "holding_tank", kind |-> "file",
      markers |-> k, stamp |-> s, mtime |-> t] :
        k \in markers, s \in stamps, t \in mtimes}

LogEntries(mtimes) ==
    {[present |-> TRUE, dir |-> "logs", kind |-> k, markers |-> {},
      stamp |-> NoStamp, mtime |-> t] : k \in {"file", "dir"}, t \in mtimes}

\* The clock before generate_file_lists reads it.
Unset == [y |-> 0, m |-> 0, d |-> 0, t |-> -1]

EmptyLists == [r \in RuleNames |-> <<>>]

ListIdle ==
    /\ list_pc = "idle"
    /\ store = <<>>
    /\ list_ds = 1
    /\ listed = [d \in {} |-> <<>>]
    /\ list_raised = "none"

EfsIdle ==
    /\ efs_pc = "idle"
    /\ now = Unset
    /\ today = Unset
    /\ threshold = [r \in RuleNames |-> 1]
    /\ action = [r \in RuleNames |-> "delete"]
    /\ file_list = EmptyLists
    /\ fs = [p \in Paths |-> Absent]
    /\ rule = 1
    /\ pos = 1
    /\ holding_tank = <<>>
    /\ product_name = [p \in Paths |-> "unread"]
    /\ deleted = <<>>
    /\ archive = EmptyLists
    /\ archived = EmptyLists
    /\ zipped = EmptyLists
    /\ bundle = [r \in RuleNames |-> "none"]
    /\ local_zips = {}
    /\ uploaded = {}
    /\ efs_raised = "none"
    /\ efs_report = [deleted |-> -1, archived |-> -1]
    /\ efs_alert = "none"

(***************************************************************************)
(* purge_s3                                                                *)
(***************************************************************************)
Dataset == DATASETS[ds]

\* A count that is the number of datasets of the dict.
gran_count_keys(dict) == Cardinality(DOMAIN dict)

\* gran_count of purge_s3
gran_count(dict) ==
    LET RECURSIVE total(_)
        total(i) == IF i = 0 THEN 0
                    ELSE total(i - 1) + Len(dict[DATASETS[i]])
    IN  total(Len(DATASETS))

\* A dict with no key.
EmptyDict == [d \in {} |-> <<>>]

\* dict[key] = value
SetItem(dict, key, value) ==
    [d \in DOMAIN dict \cup {key} |-> IF d = key THEN value ELSE dict[d]]

\* The bucket holds the data objects of counts[d] granules of dataset d,
\* named g1, g2, ..., and under every dataset the checksum objects of the
\* granules whose number is in `sidecars` (a checksum object can be left
\* behind without its data object).
Bucket(counts, sidecars) ==
    UNION {{NcKey(d, <<GranuleNames[n]>>) : n \in 1..counts[d]}
           \cup {Md5Key(d, <<GranuleNames[n]>>) : n \in sidecars} :
           d \in DatasetNames}

InitS3 ==
    /\ \E counts \in [DatasetNames -> 0..MaxGranules],
          sidecars \in SUBSET {1} :
          /\ counts["aqua"] + counts["terra"] + counts["viirs"] <= MaxGranules
          /\ objects = Bucket(counts, sidecars)
    /\ s3_pc = "list"
    /\ s3_dict = [d \in DatasetNames |-> <<>>]
    /\ del_dict = EmptyDict
    /\ ds = 1
    /\ idx = 1
    /\ res = Unbound
    /\ raised = "none"
    /\ qcd = "none"
    /\ ssm_calls = 0
    /\ cmr_calls = <<>>
    /\ s3_deletes = <<>>
    /\ stop_mark = [exc |-> "none", calls |-> 0, deletes |-> 0]
    /\ report = [found |-> -1, deleted |-> -1]
    /\ alert = "none"
    /\ EfsIdle
    /\ ListIdle

\* generate_s3_list returns the listing of every dataset.
generate_s3_list ==
    /\ s3_pc = "list"
    /\ s3_dict' = [d \in DatasetNames |->
                    list_dataset(Pages(Listing(d, objects))).s3_list]
    /\ s3_pc' = "count"
    /\ UNCHANGED <<objects, del_dict, ds, idx, res, raised, qcd, ssm_calls,
                   cmr_calls, s3_deletes, stop_mark, report, alert>>
    /\ UNCHANGED <<efsvars, listvars>>

\* list_objects_v2 raises a ClientError, which generate_s3_list re-raises.
generate_s3_list_fails ==
    /\ s3_pc = "list"
    /\ raised' = "client_error"
    /\ s3_pc' = "except"
    /\ UNCHANGED <<objects, s3_dict, del_dict, ds, idx, res, qcd, ssm_calls,
                   cmr_calls, s3_deletes, stop_mark, report, alert>>
    /\ UNCHANGED <<efsvars, listvars>>

\* purge_s3, lines 286-297: count the granules and choose the branch.
check_gran_count ==
    /\ s3_pc = "count"
    /\ IF gran_count(s3_dict) # 0
       THEN /\ s3_pc' = "token"
            /\ UNCHANGED del_dict
       ELSE /\ del_dict' = [d \in DatasetNames |-> <<>>]
            /\ s3_pc' = "report"
    /\ UNCHANGED <<objects, s3_dict, ds, idx, res, raised, qcd, ssm_calls,
                   cmr_calls, s3_deletes, stop_mark, report, alert>>
    /\ UNCHANGED <<efsvars, listvars>>

\* get_edl_token, at the start of query_cmr_and_delete.
get_edl_token ==
    /\ s3_pc = "token"
    /\ ssm_calls' = ssm_calls + 1
    /\ \/ /\ s3_pc' = "datasets"
          /\ del_dict' = EmptyDict
          /\ ds' = 1
          /\ UNCHANGED <<raised, qcd>>
       \/ /\ raised' = "client_error"
          /\ qcd' = "raised"
          /\ s3_pc' = "except"
          /\ UNCHANGED <<del_dict, ds>>
    /\ UNCHANGED <<objects, s3_dict, idx, res, cmr_calls, s3_deletes,
                   stop_mark, report, alert>>
    /\ UNCHANGED <<efsvars, listvars>>

\* The head of the loop over datasets (lines 362-365).
next_dataset ==
    /\ s3_pc = "datasets"
    /\ IF ds <= Len(DATASETS)
       THEN /\ del_dict' = SetItem(del_dict, Dataset, <<>>)
            /\ idx' = 1
            /\ s3_pc' = "candidates"
            /\ UNCHANGED qcd
       ELSE /\ qcd' = "returned"
            /\ s3_pc' = "report"
            /\ UNCHANGED <<del_dict, idx>>
    /\ UNCHANGED <<objects, s3_dict, ds, res, raised, ssm_calls, cmr_calls,
                   s3_deletes, stop_mark, report, alert>>
    /\ UNCHANGED <<efsvars, listvars>>

\* The candidates of the dataset are exhausted.
dataset_done ==
    /\ s3_pc = "candidates"
    /\ idx > Len(s3_dict[Dataset])
    /\ ds' = ds + 1
    /\ s3_pc' = "datasets"
    /\ UNCHANGED <<objects, s3_dict, del_dict, idx, res, raised, qcd,
                   ssm_calls, cmr_calls, s3_deletes, stop_mark, report, alert>>
    /\ UNCHANGED <<efsvars, listvars>>

\* The except clauses of the loop (lines 388-395) for exception exc, when
\* `res` is bound or not: the exception that leaves the function, if any.
handle_exception(exc, res_bound) ==
    IF exc = "client_error" THEN "client_error"
    ELSE IF ~res_bound THEN "unbound_local_error"
    ELSE "none"

\* One iteration of the loop over the candidates (lines 366-395), for the
\* outcome of requests.post (a response, or an exception when `posted` is
\* FALSE) and the outcomes of the delete requests.
process_candidate(l2p, posted, r, outcomes) ==
    LET new_res == IF posted THEN r ELSE res
        p == IF posted THEN process_response(r, Dataset, l2p, outcomes)
             ELSE [appended |-> <<>>, issued |-> <<>>, removed |-> {},
                   exc |-> "connection_error"]
        out == handle_exception(p.exc, new_res # Unbound)
    IN  /\ cmr_calls' = Append(cmr_calls, <<Dataset, l2p>>)
        /\ res' = new_res
        /\ del_dict' = [del_dict EXCEPT ![Dataset] = @ \o p.appended]
        /\ s3_deletes' = s3_deletes \o p.issued
        /\ objects' = objects \ p.removed
        /\ raised' = IF p.exc = "none" THEN raised
                     ELSE IF out = "none" THEN p.exc ELSE out
        /\ IF p.exc = "none"
           THEN /\ idx' = idx + 1
                /\ UNCHANGED <<s3_pc, qcd, stop_mark>>
           ELSE /\ stop_mark' = [exc |-> p.exc, calls |-> Len(cmr_calls'),
                                 deletes |-> Len(s3_deletes')]
                /\ qcd' = IF out = "none" THEN "returned" ELSE "raised"
                /\ s3_pc' = IF out = "none" THEN "report" ELSE "except"
                /\ UNCHANGED idx
        /\ UNCHANGED <<s3_dict, ds, ssm_calls, report, alert>>
        /\ UNCHANGED <<efsvars, listvars>>

\* The outcomes of the delete_l2p calls a response can lead to: one per
\* entry whose name matches.
OutcomesFor(r, l2p) ==
    {o \in [1..Len(r.files) -> DeleteOutcomes] :
        \A k \in 1..Len(r.files) :
            ~(r.files[k].has_name /\ name_matches(r.files[k], l2p))
                => o[k] = "ok"}

query_candidate ==
    /\ s3_pc = "candidates"
    /\ idx <= Len(s3_dict[Dataset])
    /\ LET l2p == s3_dict[Dataset][idx]
       IN  \/ process_candidate(l2p, FALSE, Unbound, <<>>)
           \/ \E r \in Responses(l2p) :
                 \E outcomes \in OutcomesFor(r, l2p) :
                    process_candidate(l2p, TRUE, r, outcomes)

\* len(dict[dataset]) summed over the datasets, as report_s3 sums it.
count_granules(dict) ==
    LET RECURSIVE total(_)
        total(i) == IF i = 0 THEN 0
                    ELSE total(i - 1) + Len(dict[DATASETS[i]])
    IN  total(Len(DATASETS))

\* report_s3: del_dict[dataset] is read for every dataset of s3_dict.
report_s3 ==
    /\ s3_pc = "report"
    /\ IF DOMAIN s3_dict \subseteq DOMAIN del_dict
       THEN /\ report' = [found |-> count_granules(s3_dict),
                          deleted |-> count_granules(del_dict)]
            /\ s3_pc' = "done"
            /\ UNCHANGED raised
       ELSE /\ raised' = "key_error"
            /\ s3_pc' = "except"
            /\ UNCHANGED report
    /\ UNCHANGED <<objects, s3_dict, del_dict, ds, idx, res, qcd, ssm_calls,
                   cmr_calls, s3_deletes, stop_mark, alert>>
    /\ UNCHANGED <<efsvars, listvars>>

\* What publish_event can meet: the message is published; list_topics or
\* publish raises a ClientError and the process exits; no topic matches
\* TOPIC_STRING and topic_arn is unbound.
PublishOutcomes == {"published", "exit", "unbound_local_error"}

\* The except clause of purge_s3 (lines 302-306).
publish_event_s3 ==
    /\ s3_pc = "except"
    /\ \E o \in PublishOutcomes :
          /\ alert' = o
          /\ s3_pc' = IF o = "published" THEN "done"
                      ELSE IF o = "exit" THEN "exited" ELSE "crashed"
    /\ UNCHANGED <<objects, s3_dict, del_dict, ds, idx, res, raised, qcd,
                   ssm_calls, cmr_calls, s3_deletes, stop_mark, report>>
    /\ UNCHANGED <<efsvars, listvars>>

NextS3 ==
    \/ generate_s3_list
    \/ generate_s3_list_fails
    \/ check_gran_count
    \/ get_edl_token
    \/ next_dataset
    \/ dataset_done
    \/ query_candidate
    \/ report_s3
    \/ publish_event_s3

SpecS3 == InitS3 /\ [][NextS3]_vars

(***************************************************************************)
(* purge_efs: generate_file_lists and sort_holding_tank                    *)
(***************************************************************************)
S3Idle ==
    /\ s3_pc = "idle"
    /\ objects = {}
    /\ s3_dict = [d \in DatasetNames |-> <<>>]
    /\ del_dict = EmptyDict
    /\ ds = 1
    /\ idx = 1
    /\ res = Unbound
    /\ raised = "none"
    /\ qcd = "none"
    /\ ssm_calls = 0
    /\ cmr_calls = <<>>
    /\ s3_deletes = <<>>
    /\ stop_mark = [exc |-> "none", calls |-> 0, deletes |-> 0]
    /\ report = [found |-> -1, deleted |-> -1]
    /\ alert = "none"

\* The dates a run can start on: the 2nd of a month.
StartDates == {[y |-> y, m |-> m, d |-> 2] : y \in 1..2, m \in 1..2}

\* A mount with one holding-tank file of any name and age, under any
\* thresholds of the holding-tank rules, at any start date.
OneHoldingTankFile ==
    /\ \E f \in HoldingTankFiles(SUBSET {"MODIS", "VIIRS"}, Stamps, 0..MaxAge) :
          fs = [p \in Paths |-> IF p = "f1" THEN f ELSE Absent]
    /\ \E th \in [HoldingTankRules -> 1..MaxThreshold] :
          threshold = [r \in RuleNames |->
                          IF r \in HoldingTankRules THEN th[r] ELSE 1]
    /\ action = [r \in RuleNames |-> "delete"]
    /\ \E date \in StartDates :
          now = [y |-> date.y, m |-> date.m, d |-> date.d, t |-> MaxAge]

\* A mount with up to two entries, holding-tank files of one instrument
\* dated last month, this month or tomorrow or with no timestamp, and log
\* files or directories, under any choice of actions.
TwoEntries ==
    /\ fs \in [Paths ->
                 HoldingTankFiles({{"MODIS"}, {"VIIRS"}},
                                  {[kind |-> "time", y |-> 2, m |-> 1, d |-> 2],
                                   [kind |-> "time", y |-> 2, m |-> 2, d |-> 2],
                                   [kind |-> "time", y |-> 2, m |-> 2, d |-> 3],
                                   [kind |-> "text", y |-> 0, m |-> 0, d |-> 0]},
                                  {0})
                 \cup LogEntries({0, MaxAge}) \cup {Absent}]
    /\ threshold = [r \in RuleNames |-> 1]
    /\ action \in [RuleNames -> {"delete", "archive"}]
    /\ now = [y |-> 2, m |-> 2, d |-> 2, t |-> MaxAge]

EfsStart ==
    /\ efs_pc = "config"
    /\ today = Unset
    /\ file_list = EmptyLists
    /\ rule = 1
    /\ pos = 1
    /\ holding_tank = <<>>
    /\ product_name = [p \in Paths |-> "unread"]
    /\ deleted = <<>>
    /\ archive = EmptyLists
    /\ archived = EmptyLists
    /\ zipped = EmptyLists
    /\ bundle = [r \in RuleNames |-> "none"]
    /\ local_zips = {}
    /\ uploaded = {}
    /\ efs_raised = "none"
    /\ efs_report = [deleted |-> -1, archived |-> -1]
    /\ efs_alert = "none"

InitSort == S3Idle /\ ListIdle /\ OneHoldingTankFile /\ EfsStart

InitEFS == S3Idle /\ ListIdle /\ TwoEntries /\ EfsStart

\* read_config returns purger_dict.
read_config ==
    /\ efs_pc = "config"
    /\ efs_pc' = "generate"
    /\ UNCHANGED <<now, today, threshold, action, file_list, fs, rule, pos,
                   holding_tank, product_name, deleted, archive, archived,
                   zipped, bundle, local_zips, uploaded, efs_raised,
                   efs_report, efs_alert>>
    /\ UNCHANGED <<s3vars, listvars>>

\* read_config raises: purger.json is missing or is not JSON.
read_config_fails ==
    /\ efs_pc = "config"
    /\ efs_raised' = "config_error"
    /\ efs_pc' = "except"
    /\ UNCHANGED <<now, today, threshold, action, file_list, fs, rule, pos,
                   holding_tank, product_name, deleted, archive, archived,
                   zipped, bundle, local_zips, uploaded, efs_report, efs_alert>>
    /\ UNCHANGED <<s3vars, listvars>>

\* generate_file_lists, line 125: today = datetime.datetime.now(utc)
capture_today ==
    /\ efs_pc = "generate"
    /\ today' = now
    /\ rule' = 1
    /\ efs_pc' = "scan"
    /\ UNCHANGED <<now, threshold, action, file_list, fs, pos, holding_tank,
                   product_name, deleted, archive, archived, zipped, bundle,
                   local_zips, uploaded, efs_raised, efs_report, efs_alert>>
    /\ UNCHANGED <<s3vars, listvars>>

PathSeq == <<"f1", "f2">>

\* glob.glob(f"{path_dict['path']}/{glob_op}") for the glob_ops of rule r.
RECURSIVE glob(_, _)
glob(r, k) ==
    IF k > Len(PathSeq) THEN <<>>
    ELSE (IF fs[PathSeq[k]].present /\ fs[PathSeq[k]].dir = PathOf(r)
          THEN <<PathSeq[k]>> ELSE <<>>) \o glob(r, k + 1)

\* An age measured from the clock as it is now.
age_hours_now(t, file_mod) == now.t - file_mod

\* file_age = today - file_mod; age_hours = file_age.total_seconds() / 3600
age_hours(t, file_mod) == t - file_mod

\* The loop over `files` (lines 133-138): the entries past the threshold.
RECURSIVE past_threshold(_, _)
past_threshold(files, r) ==
    IF files = <<>> THEN <<>>
    ELSE (IF age_hours(today.t, fs[Head(files)].mtime) >= threshold[r]
          THEN <<Head(files)>> ELSE <<>>)
         \o past_threshold(Tail(files), r)

\* The body of the loop over the rules (lines 128-138) for one rule; the
\* clock moves on while the directory is scanned.
scan_rule ==
    /\ efs_pc = "scan"
    /\ rule <= Len(RULES)
    /\ file_list' = [file_list EXCEPT
                        ![RULES[rule]] = past_threshold(glob(RULES[rule], 1),
                                                        RULES[rule])]
    /\ rule' = rule + 1
    /\ now' = [now EXCEPT !.t = @ + 1]
    /\ UNCHANGED <<efs_pc, today, threshold, action, fs, pos, holding_tank,
                   product_name, deleted, archive, archived, zipped, bundle,
                   local_zips, uploaded, efs_raised, efs_report, efs_alert>>
    /\ UNCHANGED <<s3vars, listvars>>

\* The elements of a sequence.
Range(q) == {q[i] : i \in DOMAIN q}

\* The orders a set can be iterated in.
Orders(S) ==
    {q \in [1..Cardinality(S) -> S] :
        \A i, j \in 1..Cardinality(S) : i # j => q[i] # q[j]}

\* [*set(quicklook + refined_modis + refined_viirs)]: the orders the
\* de-duplicated pool can come in.
pool_of(lists) ==
    Orders(Range(lists[QUICKLOOK]) \cup Range(lists[REFINED_MODIS])
           \cup Range(lists[REFINED_VIIRS]))

\* sort_holding_tank, lines 147-152: build the pool, clear the three lists.
sort_holding_tank ==
    /\ efs_pc = "scan"
    /\ rule > Len(RULES)
    /\ holding_tank' \in pool_of(file_list)
    /\ file_list' = [r \in RuleNames |->
                        IF r \in HoldingTankRules THEN <<>> ELSE file_list[r]]
    /\ pos' = 1
    /\ efs_pc' = "sort"
    /\ UNCHANGED <<now, today, threshold, action, fs, rule, product_name,
                   deleted, archive, archived, zipped, bundle, local_zips,
                   uploaded, efs_raised, efs_report, efs_alert>>
    /\ UNCHANGED <<s3vars, listvars>>

\* sort_refined_holding: the lists after the entry has been looked at.
sort_refined_holding(lists, nc_file) ==
    LET hours == age_hours(today.t, fs[nc_file].mtime)
        modis == IF "MODIS" \in fs[nc_file].markers
                    /\ hours >= threshold[REFINED_MODIS]
                 THEN [lists EXCEPT ![REFINED_MODIS] = Append(@, nc_file)]
                 ELSE lists
    IN  IF "VIIRS" \in fs[nc_file].markers
           /\ hours >= threshold[REFINED_VIIRS]
        THEN [modis EXCEPT ![REFINED_VIIRS] = Append(@, nc_file)]
        ELSE modis

\* The branch of lines 160-171 a parsed file date takes.
branch_of(file_date) ==
    IF file_date.m = today.m /\ file_date.d = 1 THEN "check_processing_type"
    ELSE IF file_date.m < today.m THEN "sort_refined_holding"
    ELSE IF file_date.m = today.m THEN "quicklook"
    ELSE "not_deleted"

\* What Dataset(nc_file).product_name can give: a name with or without
\* "NRT", or an exception when the file or the attribute cannot be read.
ProductNames == {"NRT", "REFINED", "unreadable"}

\* A test that takes the names without "NRT".
is_not_nrt(product) == product # "NRT"

\* "NRT" in product_name
is_nrt(product) == product = "NRT"

\* One iteration of the loop over the pool (lines 155-171).
sort_entry ==
    /\ efs_pc = "sort"
    /\ pos <= Len(holding_tank)
    /\ LET nc_file == holding_tank[pos]
           file_date == fs[nc_file].stamp
       IN  IF file_date.kind # "time"
           THEN /\ efs_raised' = IF file_date.kind = "none" THEN "index_error"
                                 ELSE "value_error"
                /\ efs_pc' = "except"
                /\ UNCHANGED <<file_list, pos, product_name>>
           ELSE IF branch_of(file_date) = "check_processing_type"
           THEN \E product \in ProductNames :
                   /\ product_name' = [product_name EXCEPT ![nc_file] = product]
                   /\ IF product = "unreadable"
                      THEN /\ efs_raised' = "os_error"
                           /\ efs_pc' = "except"
                           /\ UNCHANGED <<file_list, pos>>
                      ELSE /\ file_list' =
                                IF is_nrt(product)
                                THEN [file_list EXCEPT
                                         ![QUICKLOOK] = Append(@, nc_file)]
                                ELSE sort_refined_holding(file_list, nc_file)
                           /\ pos' = pos + 1
                           /\ UNCHANGED <<efs_pc, efs_raised>>
           ELSE /\ file_list' =
                     IF branch_of(file_date) = "sort_refined_holding"
                     THEN sort_refined_holding(file_list, nc_file)
                     ELSE IF branch_of(file_date) = "quicklook"
                     THEN [file_list EXCEPT ![QUICKLOOK] = Append(@, nc_file)]
                     ELSE file_list
                /\ pos' = pos + 1
                /\ UNCHANGED <<efs_pc, efs_raised, product_name>>
    /\ UNCHANGED <<now, today, threshold, action, fs, rule, holding_tank,
                   deleted, archive, archived, zipped, bundle, local_zips,
                   uploaded, efs_report, efs_alert>>
    /\ UNCHANGED <<s3vars, listvars>>

\* The pool is exhausted: generate_file_lists returns.
sort_done ==
    /\ efs_pc = "sort"
    /\ pos > Len(holding_tank)
    /\ rule' = 1
    /\ pos' = 1
    /\ efs_pc' = "dispose"
    /\ UNCHANGED <<now, today, threshold, action, file_list, fs, holding_tank,
                   product_name, deleted, archive, archived, zipped, bundle,
                   local_zips, uploaded, efs_raised, efs_report, efs_alert>>
    /\ UNCHANGED <<s3vars, listvars>>

NextSort ==
    \/ read_config
    \/ read_config_fails
    \/ capture_today
    \/ scan_rule
    \/ sort_holding_tank
    \/ sort_entry
    \/ sort_done

SpecSort == InitSort /\ [][NextSort]_vars

(***************************************************************************)
(* purge_efs: archive_and_delete, upload_archives, report_ops              *)
(***************************************************************************)
\* file.unlink() or shutil.rmtree(file): the entry is gone (the record keeps
\* what the path was named).
remove(files, file) == [files EXCEPT ![file].present = FALSE]

\* The first loop of archive_and_delete (lines 211-218) for one entry: the
\* entry is removed (or the removal raises an OSError) or kept for the zip.
dispose_entry ==
    /\ efs_pc = "dispose"
    /\ rule <= Len(RULES)
    /\ pos <= Len(file_list[RULES[rule]])
    /\ LET r == RULES[rule]
           file == file_list[r][pos]
       IN  IF action[r] = "delete"
           THEN \/ /\ fs' = remove(fs, file)
                   /\ deleted' = Append(deleted, file)
                   /\ pos' = pos + 1
                   /\ UNCHANGED <<efs_pc, archive, efs_raised>>
                \/ /\ fs[file].present
                   /\ efs_raised' = "os_error"
                   /\ efs_pc' = "except"
                   /\ UNCHANGED <<fs, deleted, pos, archive>>
           ELSE /\ archive' = [archive EXCEPT ![r] = Append(@, file)]
                /\ pos' = pos + 1
                /\ UNCHANGED <<efs_pc, fs, deleted, efs_raised>>
    /\ UNCHANGED <<now, today, threshold, action, file_list, rule,
                   holding_tank, product_name, archived, zipped, bundle,
                   local_zips, uploaded, efs_report, efs_alert>>
    /\ UNCHANGED <<s3vars, listvars>>

\* The file_list of the rule is exhausted; after the last rule the second
\* loop of archive_and_delete starts.
dispose_next_rule ==
    /\ efs_pc = "dispose"
    /\ rule <= Len(RULES)
    /\ pos > Len(file_list[RULES[rule]])
    /\ pos' = 1
    /\ IF rule = Len(RULES)
       THEN rule' = 1 /\ efs_pc' = "zip"
       ELSE rule' = rule + 1 /\ UNCHANGED efs_pc
    /\ UNCHANGED <<now, today, threshold, action, file_list, fs, holding_tank,
                   product_name, deleted, archive, archived, zipped, bundle,
                   local_zips, uploaded, efs_raised, efs_report, efs_alert>>
    /\ UNCHANGED <<s3vars, listvars>>

\* Lines 228-234: nothing to archive for the rule, or its zip file is
\* created and opened (or creating it raises an OSError).
open_bundle ==
    /\ efs_pc = "zip"
    /\ rule <= Len(RULES)
    /\ LET r == RULES[rule]
       IN  IF Len(archive[r]) > 0
           THEN \/ /\ bundle' = [bundle EXCEPT ![r] = "open"]
                   /\ local_zips' = local_zips \cup {r}
                   /\ pos' = 1
                   /\ efs_pc' = "members"
                   /\ UNCHANGED <<rule, efs_raised>>
                \/ /\ efs_raised' = "os_error"
                   /\ efs_pc' = "except"
                   /\ UNCHANGED <<bundle, local_zips, pos, rule>>
           ELSE /\ rule' = rule + 1
                /\ UNCHANGED <<bundle, local_zips, pos, efs_pc, efs_raised>>
    /\ UNCHANGED <<now, today, threshold, action, file_list, fs, holding_tank,
                   product_name, deleted, archive, archived, zipped, uploaded,
                   efs_report, efs_alert>>
    /\ UNCHANGED <<s3vars, listvars>>

\* Lines 236-240 for one member: it is written to the zip file and the
\* original is removed; or archive.write raises (the original is missing or
\* cannot be read, the disk is full) and the with block closes the zip file
\* on its way out.
write_member ==
    /\ efs_pc = "members"
    /\ pos <= Len(archive[RULES[rule]])
    /\ LET r == RULES[rule]
           file == archive[r][pos]
       IN  \/ /\ fs[file].present
              /\ fs' = remove(fs, file)
              /\ archived' = [archived EXCEPT ![r] = Append(@, file)]
              /\ pos' = pos + 1
              /\ UNCHANGED <<efs_pc, bundle, efs_raised>>
           \/ /\ bundle' = [bundle EXCEPT ![r] = "aborted"]
              /\ efs_raised' = "os_error"
              /\ efs_pc' = "except"
              /\ UNCHANGED <<fs, archived, pos>>
    /\ UNCHANGED <<now, today, threshold, action, file_list, rule,
                   holding_tank, product_name, deleted, archive, zipped,
                   local_zips, uploaded, efs_report, efs_alert>>
    /\ UNCHANGED <<s3vars, listvars>>

\* The end of the with block and line 241: the zip file is closed, which
\* writes its directory, and is handed to upload_archives; or closing raises.
close_bundle ==
    /\ efs_pc = "members"
    /\ pos > Len(archive[RULES[rule]])
    /\ LET r == RULES[rule]
       IN  \/ /\ bundle' = [bundle EXCEPT ![r] = "sealed"]
              /\ zipped' = [zipped EXCEPT ![r] = <<r>>]
              /\ rule' = rule + 1
              /\ efs_pc' = "zip"
              /\ UNCHANGED efs_raised
           \/ /\ bundle' = [bundle EXCEPT ![r] = "aborted"]
              /\ efs_raised' = "os_error"
              /\ efs_pc' = "except"
              /\ UNCHANGED <<zipped, rule>>
    /\ UNCHANGED <<now, today, threshold, action, file_list, fs, pos,
                   holding_tank, product_name, deleted, archive, archived,
                   local_zips, uploaded, efs_report, efs_alert>>
    /\ UNCHANGED <<s3vars, listvars>>

\* archive_and_delete returns deleted, archived, zipped.
archive_and_delete_returns ==
    /\ efs_pc = "zip"
    /\ rule > Len(RULES)
    /\ rule' = 1
    /\ efs_pc' = "upload"
    /\ UNCHANGED <<now, today, threshold, action, file_list, fs, pos,
                   holding_tank, product_name, deleted, archive, archived,
                   zipped, bundle, local_zips, uploaded, efs_raised,
                   efs_report, efs_alert>>
    /\ UNCHANGED <<s3vars, listvars>>

\* How upload_file can go: it returns, it raises a ClientError, or it raises
\* another exception (boto3 wraps a failed transfer in S3UploadFailedError).
UploadOutcomes == {"ok", "client_error", "upload_failed"}

\* Zip files that are unlinked whatever upload_file did.
unlinked_anyway(zips, r, outcome) == zips \ {r}

\* Lines 266-269: zip_file.unlink() runs when upload_file has returned.
unlinked_after_upload(zips, r, outcome) ==
    IF outcome = "ok" THEN zips \ {r} ELSE zips

\* The loop of upload_archives for the zip files of one rule.
upload_zip ==
    /\ efs_pc = "upload"
    /\ rule <= Len(RULES)
    /\ LET r == RULES[rule]
       IN  IF Len(zipped[r]) > 0
           THEN \E outcome \in UploadOutcomes :
                   /\ uploaded' = IF outcome = "ok" THEN uploaded \cup {r}
                                  ELSE uploaded
                   /\ local_zips' = unlinked_after_upload(local_zips, r, outcome)
                   /\ IF outcome = "ok"
                      THEN /\ rule' = rule + 1
                           /\ UNCHANGED <<efs_pc, efs_raised>>
                      ELSE /\ efs_raised' = outcome
                           /\ efs_pc' = "except"
                           /\ UNCHANGED rule
           ELSE /\ rule' = rule + 1
                /\ UNCHANGED <<uploaded, local_zips, efs_pc, efs_raised>>
    /\ UNCHANGED <<now, today, threshold, action, file_list, fs, pos,
                   holding_tank, product_name, deleted, archive, archived,
                   zipped, bundle, efs_report, efs_alert>>
    /\ UNCHANGED <<s3vars, listvars>>

\* `count` of report_ops: the names archived, over all rules.
count_archived(lists) ==
    LET RECURSIVE total(_)
        total(i) == IF i = 0 THEN 0 ELSE total(i - 1) + Len(lists[RULES[i]])
    IN  total(Len(RULES))

\* upload_archives has returned: report_ops logs the two counts.
report_ops ==
    /\ efs_pc = "upload"
    /\ rule > Len(RULES)
    /\ efs_report' = [deleted |-> Len(deleted),
                      archived |-> count_archived(archived)]
    /\ efs_pc' = "done"
    /\ UNCHANGED <<now, today, threshold, action, file_list, fs, rule, pos,
                   holding_tank, product_name, deleted, archive, archived,
                   zipped, bundle, local_zips, uploaded, efs_raised,
                   efs_alert>>
    /\ UNCHANGED <<s3vars, listvars>>

\* The except clause of purge_efs (lines 106-110).
publish_event_efs ==
    /\ efs_pc = "except"
    /\ \E o \in PublishOutcomes :
          /\ efs_alert' = o
          /\ efs_pc' = IF o = "published" THEN "failed"
                       ELSE IF o = "exit" THEN "exited" ELSE "crashed"
    /\ UNCHANGED <<now, today, threshold, action, file_list, fs, rule, pos,
                   holding_tank, product_name, deleted, archive, archived,
                   zipped, bundle, local_zips, uploaded, efs_raised,
                   efs_report>>
    /\ UNCHANGED <<s3vars, listvars>>

NextEFS ==
    \/ read_config
    \/ read_config_fails
    \/ capture_today
    \/ scan_rule
    \/ sort_holding_tank
    \/ sort_entry
    \/ sort_done
    \/ dispose_entry
    \/ dispose_next_rule
    \/ open_bundle
    \/ write_member
    \/ close_bundle
    \/ archive_and_delete_returns
    \/ upload_zip
    \/ report_ops
    \/ publish_event_efs

SpecEFS == InitEFS /\ [][NextEFS]_vars

(***************************************************************************)
(* generate_s3_list against a store of any behaviour: a response can come   *)
(* without "Contents" and still carry a continuation token, and the keys    *)
(* under a prefix need not be data or checksum objects.                     *)
(***************************************************************************)
\* The base names a key of the bucket can have.
ListNames ==
    {<<"g1", "nc">>, <<"g2", "nc">>, <<"g1", "nc", "md5">>, <<"notes", "txt">>}

\* The base names of one response.
PageNames ==
    UNION {[1..n -> ListNames] : n \in 0..MaxPageKeys}

\* The responses for dataset: response i names response i + 1 as the next
\* one, the last response has no continuation token.
StoreFor(dataset) ==
    [i \in DOMAIN store |->
        [Contents |-> [k \in DOMAIN store[i] |->
                          [prefix |-> dataset, name |-> store[i][k]]],
         HasContents |-> store[i] # <<>>,
         NextContinuationToken |-> IF i < Len(store) THEN i + 1 ELSE 0]]

InitList ==
    /\ S3Idle
    /\ EfsIdle
    /\ list_pc = "list"
    /\ store \in UNION {[1..n -> PageNames] : n \in 1..MaxPages}
    /\ list_ds = 1
    /\ listed = EmptyDict
    /\ list_raised = "none"

\* Lines 312-335 for one dataset: its list is stored in s3_dict, or the
\* KeyError of a response without "Contents" leaves the function.
list_one_dataset ==
    /\ list_pc = "list"
    /\ list_ds <= Len(DATASETS)
    /\ LET dataset == DATASETS[list_ds]
           result == list_dataset(StoreFor(dataset))
       IN  IF result.raised = "none"
           THEN /\ listed' = SetItem(listed, dataset, result.s3_list)
                /\ list_ds' = list_ds + 1
                /\ UNCHANGED <<list_pc, list_raised>>
           ELSE /\ list_raised' = result.raised
                /\ list_pc' = "except"
                /\ UNCHANGED <<listed, list_ds>>
    /\ UNCHANGED store
    /\ UNCHANGED <<s3vars, efsvars>>

\* Lines 336-337: list_objects_v2 raises a ClientError, which is re-raised.
list_client_error ==
    /\ list_pc = "list"
    /\ list_ds <= Len(DATASETS)
    /\ list_raised' = "client_error"
    /\ list_pc' = "except"
    /\ UNCHANGED <<store, listed, list_ds>>
    /\ UNCHANGED <<s3vars, efsvars>>

\* Line 339: return s3_dict
list_returns ==
    /\ list_pc = "list"
    /\ list_ds > Len(DATASETS)
    /\ list_pc' = "returned"
    /\ UNCHANGED <<store, listed, list_ds, list_raised>>
    /\ UNCHANGED <<s3vars, efsvars>>

NextList ==
    \/ list_one_dataset
    \/ list_client_error
    \/ list_returns

SpecList == InitList /\ [][NextList]_vars

(***************************************************************************)
(* Claims about purge_s3                                                   *)
(***************************************************************************)
\* The search for l2p returned one or more hits with an archive-distribution
\* entry named exactly {l2p}.nc.
Confirms(r, l2p) ==
    /\ r.body = "json"
    /\ r.hits > 0
    /\ r.items_ok
    /\ \E k \in 1..Len(r.files) :
          r.files[k].has_name /\ r.files[k].Name = l2p \o <<"nc">>

\* The delete requests issued by the step.
NewDeletes == {s3_deletes'[i] : i \in (Len(s3_deletes) + 1)..Len(s3_deletes')}

C1_Step ==
    LET l2p == s3_dict[Dataset][idx]
        data == [prefix |-> Dataset, name |-> l2p \o <<"nc">>]
        sidecar == [prefix |-> Dataset, name |-> l2p \o <<"nc", "md5">>]
    IN  /\ (NewDeletes # {} \/ objects' # objects)
            => /\ cmr_calls' = Append(cmr_calls, <<Dataset, l2p>>)
               /\ Confirms(res', l2p)
               /\ ~res'.errors
               /\ NewDeletes \subseteq {data, sidecar}
               /\ objects \ objects' \subseteq {data, sidecar}
               /\ objects' \subseteq objects
        /\ (cmr_calls' # cmr_calls /\ (res'.errors \/ ~Confirms(res', l2p)))
            => /\ NewDeletes = {}
               /\ objects' = objects
               /\ del_dict' = del_dict
        /\ (objects' # objects /\ data \in objects \ objects')
            => /\ sidecar \in NewDeletes
               /\ \E k \in 1..Len(del_dict'[Dataset]) :
                     del_dict'[Dataset][k] = l2p

\* C1: the staging objects {dataset}/{id}.nc and {dataset}/{id}.nc.md5 are
\* deleted only in the step that searched the catalog for id and got one or
\* more hits with an entry named exactly {id}.nc; a search that returned an
\* error response, zero hits or no matching name leaves the bucket and
\* del_dict untouched; and whenever the data object is deleted the delete of
\* its checksum sidecar is issued in the same step and id is in del_dict.
C1_DeleteOnlyConfirmed == [][C1_Step]_vars

\* A run that found two granules, deleted one with its sidecar, left the
\* data object of the other in place and reported 2 found / 1 deleted.
C1_Witness ==
    /\ s3_pc = "done"
    /\ report = [found |-> 2, deleted |-> 1]
    /\ Len(s3_deletes) = 2
    /\ \E i, j \in 1..Len(cmr_calls) :
          /\ i # j
          /\ NcKey(cmr_calls[i][1], cmr_calls[i][2]) \notin objects
          /\ s3_deletes = <<NcKey(cmr_calls[i][1], cmr_calls[i][2]),
                            Md5Key(cmr_calls[i][1], cmr_calls[i][2])>>
          /\ NcKey(cmr_calls[j][1], cmr_calls[j][2]) \in objects

\* The identifiers whose data object a delete request was issued for under
\* the prefix `dataset`, in the order of the requests.
RECURSIVE DeletedIds(_, _)
DeletedIds(reqs, dataset) ==
    IF reqs = <<>> THEN <<>>
    ELSE LET k == Head(reqs)
         IN  (IF k.prefix = dataset /\ k.name[Len(k.name)] = "nc"
              THEN <<SubSeq(k.name, 1, Len(k.name) - 1)>> ELSE <<>>)
             \o DeletedIds(Tail(reqs), dataset)

\* The exceptions a candidate can raise outside the store client: the search
\* request fails, its body is not JSON, the response lacks a key.
CatalogExceptions == {"connection_error", "json_error", "key_error"}

\* C2: once processing a candidate has raised an exception that does not come
\* from the store client, query_cmr_and_delete has returned, what it returned
\* is exactly the deletions made (every data object it deleted, nothing
\* else), and no search and no delete request is issued after that point.
C2_FailStop ==
    stop_mark.exc \in CatalogExceptions
        => /\ qcd = "returned"
           /\ \A d \in DatasetNames :
                 IF d \in DOMAIN del_dict
                 THEN del_dict[d] = DeletedIds(s3_deletes, d)
                 ELSE DeletedIds(s3_deletes, d) = <<>>
           /\ Len(cmr_calls) = stop_mark.calls
           /\ Len(s3_deletes) = stop_mark.deletes

\* C3: after a listing that yields no candidate in any dataset, no
\* credential is requested, no catalog search and no delete is issued, the
\* run is on its way to report_s3 and what it reports is 0 found, 0 deleted.
C3_ShortCircuit ==
    (s3_pc # "list" /\ raised = "none" /\ count_granules(s3_dict) = 0)
        => /\ ssm_calls = 0
           /\ cmr_calls = <<>>
           /\ s3_deletes = <<>>
           /\ s3_pc \in {"count", "report", "done"}
           /\ s3_pc = "done" => report = [found |-> 0, deleted |-> 0]

\* A finished run over a bucket that holds objects but no data object.
C3_Witness ==
    /\ s3_pc = "done"
    /\ objects # {}
    /\ count_granules(s3_dict) = 0
    /\ report = [found |-> 0, deleted |-> 0]
    /\ ssm_calls = 0

\* C10: a run whose last search returned an error response, or in which an
\* exception of a candidate made query_cmr_and_delete return early, is not on
\* the path that publishes an alert, and when it is done it has reported.
C10_ReportAlways ==
    /\ (res.errors /\ raised = "none")
          => s3_pc \in {"candidates", "datasets", "report", "done"}
    /\ (stop_mark.exc \in (CatalogExceptions \cup {"store_error"})
        /\ qcd = "returned")
          => /\ s3_pc \in {"report", "done"}
             /\ alert = "none"
             /\ s3_pc = "done" => report.found >= 0

(***************************************************************************)
(* Claims about purge_efs                                                  *)
(***************************************************************************)
\* C4: for every rule whose action is archive, an original that is gone from
\* the mount belongs to a bundle that has been written and closed.
C4_SealBeforeRemove ==
    \A r \in RuleNames :
        action[r] = "archive"
            => \A i \in 1..Len(archive[r]) :
                   ~fs[archive[r][i]].present => bundle[r] = "sealed"

\* The zip file of rule r has been created.
Created(r) == bundle[r] # "none"

\* C5: a zip file that is gone from the mount is one the store holds; and
\* when upload_file has failed, the zip file it was given and every zip file
\* not uploaded are still on the mount, the exception has reached purge_efs
\* and no report of a completed run is logged.
C5_UploadBeforeUnlink ==
    /\ \A r \in RuleNames : (Created(r) /\ r \notin local_zips) => r \in uploaded
    /\ efs_raised \in {"client_error", "upload_failed"}
          => /\ RULES[rule] \in local_zips
             /\ RULES[rule] \notin uploaded
             /\ \A r \in RuleNames :
                   (Len(zipped[r]) > 0 /\ r \notin uploaded) => r \in local_zips
             /\ efs_pc \in {"except", "failed", "exited", "crashed"}
             /\ efs_report.deleted = -1

\* The first zip file was uploaded and unlinked, the upload of the second
\* raised a ClientError, the alert was published: the second is on the mount.
C5_Witness ==
    /\ efs_pc = "failed"
    /\ efs_raised = "client_error"
    /\ uploaded # {}
    /\ uploaded \cap local_zips = {}
    /\ \E r \in local_zips : bundle[r] = "sealed" /\ r \notin uploaded

\* The entries of the pool that the loop of sort_holding_tank has been
\* through.
Sorted(p) ==
    \/ efs_pc = "dispose" /\ p \in Range(holding_tank)
    \/ /\ efs_pc \in {"sort", "except"}
       /\ \E i \in 1..(pos - 1) : i <= Len(holding_tank) /\ holding_tank[i] = p

\* Number of times p occurs in a list.
Occurrences(q, p) == Cardinality({i \in 1..Len(q) : q[i] = p})

\* C6: after sort_holding_tank no entry is in two of the holding-tank lists
\* or twice in one of them.
C6_Partition ==
    efs_pc \in {"sort", "dispose"}
        => \A p \in Paths :
              /\ \A r1, r2 \in HoldingTankRules :
                    (r1 # r2 /\ p \in Range(file_list[r1]))
                        => p \notin Range(file_list[r2])
              /\ \A r \in HoldingTankRules : Occurrences(file_list[r], p) <= 1

\* The embedded date is later than the date of the run.
InFuture(stamp) ==
    \/ stamp.y > today.y
    \/ stamp.y = today.y /\ stamp.m > today.m
    \/ stamp.y = today.y /\ stamp.m = today.m /\ stamp.d > today.d

\* The entry has no parseable timestamp in its second segment, no known
\* instrument token in its name, or a date in the future.
Ambiguous(p) ==
    \/ fs[p].stamp.kind # "time"
    \/ fs[p].markers \cap {"MODIS", "VIIRS"} = {}
    \/ InFuture(fs[p].stamp)

\* The entry is one that generate_file_lists put in a holding-tank list.
InPool(p) == p \in Range(holding_tank)

\* C7: an ambiguous entry of the pool does not stop the classification, is in
\* none of the holding-tank lists, and is neither removed nor archived.
C7_AmbiguityHarmless ==
    \A p \in Paths :
        (InPool(p) /\ today # Unset /\ Ambiguous(p))
            => /\ efs_raised \notin {"value_error", "index_error"}
               /\ fs[p].present
               /\ \A r \in HoldingTankRules :
                     /\ p \notin Range(file_list[r])
                     /\ p \notin Range(archive[r])

\* C8: an entry dated the 1st of the current month that the loop has been
\* through is in the quicklook list (and in no refined list) when its
\* product name has "NRT", whatever its age; otherwise it is not in the
\* quicklook list, and it is in the refined list of an instrument exactly
\* when its name has the token of the instrument and its age in hours is at
\* least the threshold of that list.
C8_MonthBoundary ==
    \A p \in Paths :
        (Sorted(p) /\ fs[p].stamp.kind = "time"
         /\ fs[p].stamp.y = today.y /\ fs[p].stamp.m = today.m
         /\ fs[p].stamp.d = 1 /\ product_name[p] \in {"NRT", "REFINED"})
            => IF product_name[p] = "NRT"
               THEN /\ Occurrences(file_list[QUICKLOOK], p) = 1
                    /\ p \notin Range(file_list[REFINED_MODIS])
                    /\ p \notin Range(file_list[REFINED_VIIRS])
               ELSE /\ p \notin Range(file_list[QUICKLOOK])
                    /\ p \in Range(file_list[REFINED_MODIS])
                         <=> /\ "MODIS" \in fs[p].markers
                             /\ today.t - fs[p].mtime >= threshold[REFINED_MODIS]
                    /\ p \in Range(file_list[REFINED_VIIRS])
                         <=> /\ "VIIRS" \in fs[p].markers
                             /\ today.t - fs[p].mtime >= threshold[REFINED_VIIRS]

\* A MODIS entry dated the 1st of the current month, not near-real-time,
\* whose age equals the refined MODIS threshold and is below the quicklook
\* threshold, is in the refined MODIS list.
C8_Witness ==
    \E p \in Paths :
        /\ Sorted(p)
        /\ fs[p].stamp = [kind |-> "time", y |-> today.y, m |-> today.m, d |-> 1]
        /\ product_name[p] = "REFINED"
        /\ fs[p].markers = {"MODIS"}
        /\ today.t - fs[p].mtime = threshold[REFINED_MODIS]
        /\ today.t - fs[p].mtime < threshold[QUICKLOOK]
        /\ file_list[REFINED_MODIS] = <<p>>

\* C9: while generate_file_lists scans, the list of every rule scanned holds
\* exactly the entries under the path of the rule whose age, measured from
\* the one instant captured when the run started, is at least the threshold
\* of the rule; the captured instant does not move, and the classification
\* of the holding tank measures ages from it too.
C9_AgeFilter ==
    /\ efs_pc \in {"scan", "sort", "dispose"} => today.t = MaxAge
    /\ efs_pc = "scan"
          => \A k \in 1..(rule - 1) : \A p \in Paths :
                p \in Range(file_list[RULES[k]])
                    <=> /\ fs[p].present
                        /\ fs[p].dir = PathOf(RULES[k])
                        /\ MaxAge - fs[p].mtime >= threshold[RULES[k]]
    /\ efs_pc \in {"sort", "dispose"}
          => \A p \in Paths : \A r \in {REFINED_MODIS, REFINED_VIIRS} :
                p \in Range(file_list[r])
                    => MaxAge - fs[p].mtime >= threshold[r]

\* An entry whose age equals the threshold of one rule and is below the
\* threshold of another: the first rule lists it, the second does not.
C9_Witness ==
    /\ efs_pc = "scan"
    /\ rule > Len(RULES)
    /\ \E p \in Paths :
          /\ today.t - fs[p].mtime = threshold[QUICKLOOK]
          /\ today.t - fs[p].mtime < threshold[REFINED_MODIS]
          /\ file_list[QUICKLOOK] = <<p>>
          /\ file_list[REFINED_MODIS] = <<>>

\* C11: with action delete each removal is independent: a step of the first
\* loop of archive_and_delete stays in the loop or goes on to the archival;
\* no removal that fails takes the run to the except clause of purge_efs.
C11_IndependentRemovals ==
    [][efs_pc = "dispose"
          => /\ efs_pc' \in {"dispose", "zip"}
             /\ efs_raised' = efs_raised]_vars

\* C12: when publish_event cannot publish the alert of purge_efs, the
\* failure is only logged: purge_efs returns as it does after a published
\* alert, the process is not ended and no exception leaves the pipeline.
C12_BestEffortAlert ==
    efs_alert \in PublishOutcomes \ {"published"} => efs_pc = "failed"
\* The embedded date is in a calendar month before the month of the run.
EarlierMonth(stamp) ==
    \/ stamp.y < today.y
    \/ stamp.y = today.y /\ stamp.m < today.m

\* C13: an entry the loop of sort_holding_tank has been through whose
\* embedded date is not in the future does not take the log-and-exclude
\* branch, and an entry dated in a calendar month before the current one,
\* of this year or of a previous year, takes the refined handling.
C13_OnlyFutureExcluded ==
    \A p \in Paths :
        (Sorted(p) /\ fs[p].stamp.kind = "time")
            => /\ ~InFuture(fs[p].stamp)
                     => branch_of(fs[p].stamp) # "not_deleted"
               /\ EarlierMonth(fs[p].stamp)
                     => branch_of(fs[p].stamp) = "sort_refined_holding"
(***************************************************************************)
(* Claims about generate_s3_list                                           *)
(***************************************************************************)
\* The key is a data object: its base name ends with the extension nc.
IsDataKey(key) ==
    Len(key.name) >= 2 /\ key.name[Len(key.name)] = "nc"

\* The keys of all the responses, in response order.
RECURSIVE AllKeys(_)
AllKeys(responses) ==
    IF responses = <<>> THEN <<>>
    ELSE Head(responses).Contents \o AllKeys(Tail(responses))

\* The base names of the data objects of all the responses with the
\* extension stripped.
AllIdentifiers(responses) ==
    LET data == SelectSeq(AllKeys(responses), IsDataKey)
    IN  [i \in 1..Len(data) |->
            SubSeq(data[i].name, 1, Len(data[i].name) - 1)]

\* C14: whatever responses the store gives, generate_s3_list goes on until
\* the response without continuation token (no response makes it stop
\* before), and the list of every dataset listed is exactly the identifiers
\* of the data objects of all the responses, in order; checksum objects and
\* other keys give no identifier.
C14_ListingComplete ==
    /\ list_raised # "key_error"
    /\ \A d \in DOMAIN listed : listed[d] = AllIdentifiers(StoreFor(d))
(***************************************************************************)
(* Claims about the lists generate_file_lists hands to archive_and_delete  *)
(***************************************************************************)
\* C15: when generate_file_lists has returned, every entry of the file_list
\* of a rule, the three holding-tank lists after the sorting included, has
\* an age in hours that is at least the threshold of that rule.
C15_ThresholdInvariant ==
    efs_pc = "dispose"
        => \A r \in RuleNames : \A p \in Range(file_list[r]) :
              today.t - fs[p].mtime >= threshold[r]
====
